---- MODULE Spec2Model ----
(***************************************************************************)
(* Identity reconciliation and credit accounting of cjpol-agent-web-v2-api *)
(*                                                                         *)
(* The model covers the credential verifier (utils/wordpressAuth.ts), the  *)
(* membership resolver and entitlement mapper, the identity reconciler and *)
(* the credit ledger (the user service), the login service                 *)
(* (services/authService.ts) and the administrative user update.           *)
(*                                                                         *)
(* Every `await` on the record store is one atomic step of a request; the  *)
(* steps of concurrent requests interleave freely.  Strings that the code  *)
(* inspects character by character (secrets, membership levels) are tuples *)
(* of one-character strings; an address is the tuple of its dot-separated  *)
(* segments.  The picture and timestamp columns of a user row are left     *)
(* out: no step of the modelled code reads them.                           *)
(***************************************************************************)
EXTENDS Integers, Sequences, FiniteSets, TLC

VARIABLES
    env,        \* process.env as read once at start-up (config/env.ts)
    users,      \* the cjpol_users table: a sequence of rows, row id = index
    pc,         \* per request slot: the await the request is suspended at
    wpUser,     \* per request slot: the verified WordPressUser of a login
    via,        \* per request slot: which verification path produced wpUser
    local,      \* per request slot: the row (or credit balance) last read
    arg,        \* per request slot: the arguments of a consumeCredits call; history of
                \* a login: the branch the reconciliation took, the rows when it began
    result,     \* per request slot: the outcome of the finished request
    tokens,     \* the access tokens issued so far (their claims)
    ops,        \* number of requests started so far
    ledger,     \* history: per user row, the current run of consumeCredits calls
    firstLogin, \* history: per user row, the login that created it and what it returned
    vcall       \* the last call of a function that is checked on its own (SpecVerify,
                \* SpecResolve): its arguments and its outcome

vars == <<env, users, pc, wpUser, via, local, arg, result, tokens, ops,
          ledger, firstLogin, vcall>>

NULL == "null"          \* a null string column

\* an optional value: None, or Some(v)
None == <<>>
Some(v) == <<v>>

(***************************************************************************)
(* Bounds of the model                                                     *)
(***************************************************************************)
NumSlots == 2           \* request slots, i.e. requests that can be in flight together
MaxOps == 3             \* requests started in one behaviour

Slots == 1..NumSlots

(***************************************************************************)
(* config/credits.ts and config/roles.ts                                   *)
(***************************************************************************)
DEFAULT_CREDITS_NEW_USER == 5

MEMBERSHIP_CREDITS == [FREE |-> 5, BASIC |-> 10, COMPLETE |-> 20, DEVELOPER |-> 500]

MEMBERSHIP_LEVELS == [FREE |-> 0, BASIC |-> 1, COMPLETE |-> 2, DEVELOPER |-> 999]

MEMBERSHIP_NAMES == [FREE |-> "free", BASIC |-> "basic", COMPLETE |-> "complete",
                     DEVELOPER |-> "developer"]

USER_ROLES == [ADMIN |-> "admin", USER |-> "user"]

WP_ROLE_MAPPING == [ADMIN |-> "administrator"]

(***************************************************************************)
(* config/env.ts: constants derived from the environment at start-up       *)
(***************************************************************************)
DefaultDevPassword == <<"d","e","v","p","a","s","s","w","o","r","d">>
LongDevPassword == <<"c","o","r","r","e","c","t","-","h","o","r","s","e">>
ShortDevPassword == <<"d","e","v">>
OtherPassword == <<"h","u","n","t","e","r","2">>
EmptyString == <<>>

\* the environments a deployment can be started with; a variable that is not
\* set reads as the empty string (both are falsy for `||`)
Environments ==
    [NODE_ENV : {"", "production", "development", "test"},
     DEV_MODE_PASSWORD : {EmptyString, LongDevPassword, ShortDevPassword}]

NODE_ENV == IF env.NODE_ENV = "" THEN "production" ELSE env.NODE_ENV

IS_PRODUCTION == NODE_ENV = "production"

IS_DEVELOPMENT_Always == TRUE

IS_DEVELOPMENT == NODE_ENV = "development"

DEV_MODE_EMAIL == "dev@example.com"

DEV_MODE_PASSWORD ==
    IF env.DEV_MODE_PASSWORD = EmptyString THEN DefaultDevPassword ELSE env.DEV_MODE_PASSWORD

DEV_MODE_USER_ID == "dev-user-id"

DEV_MODE_USER_NAME == "Development User"

DEV_MODE_CREDITS == 1000

(***************************************************************************)
(* Inputs of a login request                                               *)
(***************************************************************************)
Usernames == {"", "a@x.com", DEV_MODE_EMAIL}

Passwords == {EmptyString, OtherPassword, DefaultDevPassword, LongDevPassword,
              ShortDevPassword}

NoReq == [present |-> FALSE]

\* a request object whose ip is `ip` (the empty string when Express has none)
Req(ip) == [present |-> TRUE, ip |-> ip]

Addresses == { <<"127","0","0","1">>, <<"::1">>, <<"10","1","2","3">>,
               <<"172","16","0","9">>, <<"172","20","0","9">>,
               <<"192","168","1","7">>, <<"8","8","8","8">>,
               <<"::ffff:127","0","0","1">> }

Requests == {NoReq, Req(EmptyString)} \cup { Req(ip) : ip \in Addresses }

\* String.prototype.startsWith for a prefix that ends in a dot:
\* `segs` are the dot-separated segments of the prefix without the last dot
StartsWithSegments(ip, segs) ==
    /\ Len(ip) > Len(segs)
    /\ \A i \in 1..Len(segs) : ip[i] = segs[i]

(***************************************************************************)
(* The external identity provider: what the remote check can answer        *)
(***************************************************************************)
Levels == { <<"0">>, <<"1">>, <<"2">>, <<"9","9","9">>, <<"-","1">>, <<"x">>,
            <<"2","a">>, EmptyString }

\* the pmpro_membership descriptor embedded in a profile, reduced to its level
Membership(level) == [level |-> level]

WordPressUser(id, email, name, roles, membership) ==
    [id |-> id, email |-> email, name |-> name, roles |-> roles,
     pmpro_membership |-> membership]

\* the profiles the provider serves: account 7 with or without the
\* administrator role and a paid membership, account 8 as a plain member
\* without a descriptor or with one whose level reads 999, each under either
\* of two email addresses (an account's email can change, and an address
\* given up by one account can be taken by the other)
RemoteProfiles ==
    { WordPressUser("7", email, "Ann", rm[1], rm[2]) :
        email \in {"a@x.com", DEV_MODE_EMAIL},
        rm \in { <<{}, None>>, <<{"administrator"}, Some(Membership(<<"2">>))>> } }
    \cup { WordPressUser("8", email, "Bob", {}, membership) :
        email \in {"a@x.com", DEV_MODE_EMAIL},
        membership \in { None, Some(Membership(<<"9","9","9">>)) } }

RemoteFailures == {"http401", "econnrefused", "malformed"}

Profile(p) == [kind |-> "profile", profile |-> p]

Failure(code) == [kind |-> "failure", code |-> code]

RemoteAnswers == { Failure(c) : c \in RemoteFailures } \cup { Profile(p) : p \in RemoteProfiles }

(***************************************************************************)
(* utils/wordpressAuth.ts: the credential verifier                         *)
(***************************************************************************)
Ok(user, path) == [ok |-> TRUE, user |-> user, via |-> path]

Fail(kind, message) == [ok |-> FALSE, error |-> kind, message |-> message]

verifyWordPressCredentialsWithJWT(username, password, answer) ==
    IF username = "" \/ password = EmptyString
    THEN Fail("BadRequestError", "Email and password are required")
    ELSE IF answer.kind = "profile"
    THEN Ok(answer.profile, "remote")
    ELSE IF answer.code = "http401"
    THEN Fail("UnauthorizedError", "Invalid credentials")
    ELSE IF answer.code = "econnrefused"
    THEN Fail("UnauthorizedError",
              "Could not connect to WordPress site. Please check the WORDPRESS_URL configuration.")
    ELSE Fail("UnauthorizedError",
              "Authentication failed. Please check server logs for details.")

IsAllowedOrigin(req) ==
    IF req.present /\ req.ip # EmptyString
    THEN LET ip == req.ip
             isLocalhost == ip = <<"127","0","0","1">> \/ ip = <<"::1">>
             isPrivateNetwork == \/ StartsWithSegments(ip, <<"10">>)
                                 \/ StartsWithSegments(ip, <<"172","16">>)
                                 \/ StartsWithSegments(ip, <<"192","168">>)
         IN  isLocalhost \/ isPrivateNetwork
    ELSE TRUE

DevModeUser ==
    WordPressUser(DEV_MODE_USER_ID, DEV_MODE_EMAIL, DEV_MODE_USER_NAME,
                  {"administrator"}, Some(Membership(<<"9","9","9">>)))

verifyWordPressCredentialsDevMode(username, password, req) ==
    IF username = "" \/ password = EmptyString
    THEN Fail("BadRequestError", "Email and password are required")
    ELSE IF ~IS_DEVELOPMENT
    THEN Fail("UnauthorizedError",
              "Dev mode authentication is only available in development environment")
    ELSE IF DEV_MODE_EMAIL = "" \/ DEV_MODE_PASSWORD = EmptyString
            \/ Len(DEV_MODE_PASSWORD) < 12
    THEN Fail("UnauthorizedError", "Dev mode authentication is not properly configured")
    ELSE IF ~IsAllowedOrigin(req)
    THEN Fail("UnauthorizedError",
              "Dev mode authentication is only available from local networks")
    ELSE IF username = DEV_MODE_EMAIL /\ password = DEV_MODE_PASSWORD
    THEN Ok(DevModeUser, "fallback")
    ELSE Fail("UnauthorizedError", "Authentication failed in dev mode")

verifyWordPressCredentials_DevFirst(username, password, req, answer) ==
    IF username = "" \/ password = EmptyString
    THEN Fail("BadRequestError", "Email and password are required")
    ELSE LET jwt == verifyWordPressCredentialsWithJWT(username, password, answer)
             dev == verifyWordPressCredentialsDevMode(username, password, req)
         IN  IF IS_DEVELOPMENT /\ dev.ok THEN dev
             ELSE IF jwt.ok THEN jwt
             ELSE Fail("UnauthorizedError",
                       "Authentication failed. Please check server logs for details.")

verifyWordPressCredentials_Leaky(username, password, req, answer) ==
    IF username = "" \/ password = EmptyString
    THEN Fail("BadRequestError", "Email and password are required")
    ELSE LET jwt == verifyWordPressCredentialsWithJWT(username, password, answer)
             dev == verifyWordPressCredentialsDevMode(username, password, req)
         IN  IF jwt.ok THEN jwt
             ELSE IF IS_DEVELOPMENT THEN dev
             ELSE jwt

verifyWordPressCredentials(username, password, req, answer) ==
    IF username = "" \/ password = EmptyString
    THEN Fail("BadRequestError", "Email and password are required")
    ELSE LET jwt == verifyWordPressCredentialsWithJWT(username, password, answer)
             dev == verifyWordPressCredentialsDevMode(username, password, req)
         IN  IF jwt.ok THEN jwt
             ELSE IF IS_DEVELOPMENT /\ dev.ok THEN dev
             ELSE Fail("UnauthorizedError",
                       "Authentication failed. Please check server logs for details.")

\* the verification paths a call of verifyWordPressCredentials enters, in order
PathsTried(username, password, answer) ==
    IF username = "" \/ password = EmptyString THEN <<>>
    ELSE IF verifyWordPressCredentialsWithJWT(username, password, answer).ok
            \/ ~IS_DEVELOPMENT
    THEN <<"remote">>
    ELSE <<"remote", "fallback">>

(***************************************************************************)
(* utils/wordpressAuth.ts: the membership resolver                         *)
(***************************************************************************)
Digits == <<"0","1","2","3","4","5","6","7","8","9">>

IsDigit(c) == \E d \in 1..10 : Digits[d] = c

DigitValue(c) == (CHOOSE d \in 1..10 : Digits[d] = c) - 1

RECURSIVE ParseDigits(_, _, _)
\* the value of the longest run of digits of s that starts at index i, given
\* the value acc of the digits already read
ParseDigits(s, i, acc) ==
    IF i > Len(s) \/ ~IsDigit(s[i]) THEN acc
    ELSE ParseDigits(s, i + 1, acc * 10 + DigitValue(s[i]))

RECURSIVE SkipWhitespace(_, _)
SkipWhitespace(s, i) ==
    IF i <= Len(s) /\ s[i] = " " THEN SkipWhitespace(s, i + 1) ELSE i

\* parseInt(s, 10): None stands for NaN
parseInt(s) ==
    LET i == SkipWhitespace(s, 1)
        signed == i <= Len(s) /\ s[i] \in {"-", "+"}
        j == IF signed THEN i + 1 ELSE i
    IN  IF j > Len(s) \/ ~IsDigit(s[j]) THEN None
        ELSE IF signed /\ s[i] = "-" THEN Some(0 - ParseDigits(s, j, 0))
        ELSE Some(ParseDigits(s, j, 0))

WordPressMembership(id, name) == [id |-> id, name |-> name]

getMembershipLevel(wp) ==
    IF wp.pmpro_membership # None
    THEN LET membershipId == parseInt(wp.pmpro_membership[1].level)
         IN  IF membershipId = Some(MEMBERSHIP_LEVELS.COMPLETE)
             THEN WordPressMembership(MEMBERSHIP_LEVELS.COMPLETE, MEMBERSHIP_NAMES.COMPLETE)
             ELSE IF membershipId = Some(MEMBERSHIP_LEVELS.BASIC)
             THEN WordPressMembership(MEMBERSHIP_LEVELS.BASIC, MEMBERSHIP_NAMES.BASIC)
             ELSE WordPressMembership(MEMBERSHIP_LEVELS.FREE, MEMBERSHIP_NAMES.FREE)
    ELSE WordPressMembership(MEMBERSHIP_LEVELS.FREE, MEMBERSHIP_NAMES.FREE)

(***************************************************************************)
(* The user service: entitlement mapper and role derivation                *)
(***************************************************************************)
mapMembershipToCredits(membershipLevel) ==
    IF membershipLevel.id = MEMBERSHIP_LEVELS.DEVELOPER THEN MEMBERSHIP_CREDITS.DEVELOPER
    ELSE IF membershipLevel.id = MEMBERSHIP_LEVELS.COMPLETE THEN MEMBERSHIP_CREDITS.COMPLETE
    ELSE IF membershipLevel.id = MEMBERSHIP_LEVELS.BASIC THEN MEMBERSHIP_CREDITS.BASIC
    ELSE MEMBERSHIP_CREDITS.FREE

determineUserRole(wpRoles) ==
    IF WP_ROLE_MAPPING.ADMIN \in wpRoles THEN USER_ROLES.ADMIN ELSE USER_ROLES.USER

\* `const isDevModeUser = IS_DEVELOPMENT && wpUser.email === DEV_MODE_EMAIL`
isDevModeUser(wp) == IS_DEVELOPMENT /\ wp.email = DEV_MODE_EMAIL

\* `const userRole = isDevModeUser ? USER_ROLES.ADMIN : determineUserRole(wpUser.roles)`
userRole(wp) ==
    IF isDevModeUser(wp) THEN USER_ROLES.ADMIN ELSE determineUserRole(wp.roles)

\* the subscription label the create branch and updateUserMembership derive
subscriptionOf(membershipLevel, withDeveloper) ==
    IF membershipLevel.id = MEMBERSHIP_LEVELS.COMPLETE THEN MEMBERSHIP_NAMES.COMPLETE
    ELSE IF membershipLevel.id = MEMBERSHIP_LEVELS.BASIC THEN MEMBERSHIP_NAMES.BASIC
    ELSE IF withDeveloper /\ membershipLevel.id = MEMBERSHIP_LEVELS.DEVELOPER
    THEN MEMBERSHIP_NAMES.DEVELOPER
    ELSE MEMBERSHIP_NAMES.FREE

(***************************************************************************)
(* The cjpol_users table and the user service's access to it               *)
(***************************************************************************)
RowIds(tbl) == 1..Len(tbl)

\* `.eq('wordpress_id', wordpressId).single()`: the row, when exactly one matches
getUserByWordPressId(tbl, wordpressId) ==
    LET hits == { i \in RowIds(tbl) : tbl[i].wordpress_id = wordpressId }
    IN  IF Cardinality(hits) = 1 THEN Some(tbl[CHOOSE i \in hits : TRUE]) ELSE None

\* `.eq('email', email).single()`: the row, when exactly one matches
getUserByEmail(tbl, email) ==
    LET hits == { i \in RowIds(tbl) : tbl[i].email = email }
    IN  IF Cardinality(hits) = 1 THEN Some(tbl[CHOOSE i \in hits : TRUE]) ELSE None

\* `.eq('id', id).single()`; None makes the caller throw NotFoundError
getUserById(tbl, id) ==
    IF id \in RowIds(tbl) THEN Some(tbl[id]) ELSE None

UniqueViolation_Off(tbl, row) == FALSE

\* the unique indexes of the table: on email, and on wordpress_id when not null
UniqueViolation(tbl, row) ==
    \E i \in RowIds(tbl) :
        /\ tbl[i].id # row.id
        /\ \/ tbl[i].email = row.email
           \/ tbl[i].wordpress_id # NULL /\ tbl[i].wordpress_id = row.wordpress_id

\* the row that `.update({...userData})` leaves: the columns of the patch are
\* replaced, a column whose value is undefined is left out of the patch
ApplyPatch(row, patch) ==
    [f \in DOMAIN row |-> IF f \in DOMAIN patch THEN patch[f] ELSE row[f]]

\* `new Date().toISOString()`: the clock advances when a request arrives
Now == ops

\* updateUser(id, userData): the table and the row afterwards, or the failure
updateUser(tbl, id, patch, now) ==
    IF getUserById(tbl, id) = None THEN [ok |-> FALSE, error |-> "NotFoundError"]
    ELSE LET row == ApplyPatch(tbl[id], patch @@ [updated_at |-> now])
         IN  IF UniqueViolation(tbl, row)
             THEN [ok |-> FALSE, error |-> "InternalServerError"]
             ELSE [ok |-> TRUE, row |-> row, table |-> [tbl EXCEPT ![id] = row]]

NewUserRow_NoCredits(tbl, userData, now) ==
    [id |-> Len(tbl) + 1,
     email |-> userData.email,
     name |-> userData.name,
     wordpress_id |-> IF userData.wordpress_id = "" THEN NULL ELSE userData.wordpress_id,
     role |-> IF userData.role = "" THEN USER_ROLES.USER ELSE userData.role,
     active |-> TRUE,
     credits |-> 0,
     subscription |-> IF userData.subscription = "" THEN MEMBERSHIP_NAMES.FREE
                      ELSE userData.subscription,
     wordpress_membership_id |-> IF userData.wordpress_membership_id = 0 THEN None
                                 ELSE Some(userData.wordpress_membership_id),
     wordpress_membership_name |-> IF userData.wordpress_membership_name = "" THEN NULL
                                   ELSE userData.wordpress_membership_name,
     updated_at |-> now]

\* the row createUser inserts; the id is generated locally (uuidv4), here the
\* next free index; `x || d` takes d for a falsy x (empty string, 0)
NewUserRow(tbl, userData, now) ==
    [id |-> Len(tbl) + 1,
     email |-> userData.email,
     name |-> userData.name,
     wordpress_id |-> IF userData.wordpress_id = "" THEN NULL ELSE userData.wordpress_id,
     role |-> IF userData.role = "" THEN USER_ROLES.USER ELSE userData.role,
     active |-> TRUE,
     credits |-> userData.credits,
     subscription |-> IF userData.subscription = "" THEN MEMBERSHIP_NAMES.FREE
                      ELSE userData.subscription,
     wordpress_membership_id |-> IF userData.wordpress_membership_id = 0 THEN None
                                 ELSE Some(userData.wordpress_membership_id),
     wordpress_membership_name |-> IF userData.wordpress_membership_name = "" THEN NULL
                                   ELSE userData.wordpress_membership_name,
     updated_at |-> now]

(***************************************************************************)
(* getUserOrCreateFromWordPress: what each branch computes                 *)
(***************************************************************************)
\* found by WordPress id: the condition under which the row is updated
NeedsUpdate(row, wp) ==
    \/ row.name # wp.name
    \/ row.email # wp.email
    \/ row.role # userRole(wp)
    \/ isDevModeUser(wp) /\ row.credits # DEV_MODE_CREDITS

\* the credits and subscription columns are part of a patch for a dev mode user only
DevModePatch(wp) ==
    IF isDevModeUser(wp)
    THEN [credits |-> DEV_MODE_CREDITS, subscription |-> MEMBERSHIP_NAMES.DEVELOPER]
    ELSE <<>>

PatchFoundById(wp) ==
    [name |-> wp.name, email |-> wp.email, role |-> userRole(wp)] @@ DevModePatch(wp)

PatchFoundByEmail_NoLink(wp) ==
    [name |-> wp.name, role |-> userRole(wp)] @@ DevModePatch(wp)

PatchFoundByEmail(wp) ==
    [wordpress_id |-> wp.id, name |-> wp.name, role |-> userRole(wp)] @@ DevModePatch(wp)

\* the userData the create branch hands to createUser
NewUserData(wp) ==
    LET membershipLevel == getMembershipLevel(wp)
        initialCredits == IF isDevModeUser(wp) THEN DEV_MODE_CREDITS
                          ELSE mapMembershipToCredits(membershipLevel)
        initialSubscription == IF isDevModeUser(wp) THEN MEMBERSHIP_NAMES.DEVELOPER
                               ELSE subscriptionOf(membershipLevel, FALSE)
    IN  [email |-> wp.email, name |-> wp.name, wordpress_id |-> wp.id,
         role |-> userRole(wp), credits |-> initialCredits,
         subscription |-> initialSubscription,
         wordpress_membership_id |-> membershipLevel.id,
         wordpress_membership_name |-> initialSubscription]

\* the patch updateUserMembership writes
MembershipPatch(membershipLevel) ==
    [credits |-> mapMembershipToCredits(membershipLevel),
     subscription |-> subscriptionOf(membershipLevel, TRUE),
     wordpress_membership_id |-> Some(membershipLevel.id),
     wordpress_membership_name |-> subscriptionOf(membershipLevel, TRUE)]

\* generateToken(payload): the claims the token carries
generateToken_Admin(user) == [id |-> user.id, email |-> user.email, role |-> USER_ROLES.ADMIN]

generateToken(user) == [id |-> user.id, email |-> user.email, role |-> user.role]

(***************************************************************************)
(* Requests                                                                *)
(***************************************************************************)
NoArg == [kind |-> "none"]

NoResult == [kind |-> "none"]

NoUser == [id |-> NULL]

LoginFailed(error, message) ==
    [kind |-> "login", ok |-> FALSE, error |-> error, message |-> message,
     user |-> None, token |-> None]

LoginSucceeded(user, token) ==
    [kind |-> "login", ok |-> TRUE, error |-> "", message |-> "",
     user |-> Some(user), token |-> Some(token)]

\* the catch block of authenticateWithWordPress: an UnauthorizedError or a
\* BadRequestError is thrown on, anything else becomes 'Authentication failed'
Rethrown(error, message) ==
    IF error \in {"UnauthorizedError", "BadRequestError"}
    THEN LoginFailed(error, message)
    ELSE LoginFailed("UnauthorizedError", "Authentication failed")

\* what consumeCredits gave its caller: Returned(b) for `return b`
Returned(value) == [kind |-> "returned", value |-> value]

\* the outcome of a send-message request that ended after consumeCredits
\* returned `value`, the webhook not invoked
Consumed(value) == [kind |-> "consume", value |-> value, webhook |-> "none"]

\* the outcome of a send-message request whose webhook call ended with `outcome`
Sent(value, outcome) == [kind |-> "consume", value |-> value, webhook |-> outcome]

\* the slots whose consumeCredits call on row `id` has read and not yet written
ConsumersInFlight(id) ==
    { s \in Slots : pc[s] \in {"consumeRead", "consumeWrite"} /\ arg[s].userId = id }

\* history: the run of consumeCredits calls on a row ends when anything else
\* writes the row's credits
Spoil(led, id) == [led EXCEPT ![id].valid = FALSE]

\* history: a row stops being `as its creating login left it` when a request
\* other than a login with the creating identity writes it
Forget(first, id, wp) ==
    IF first[id] # None /\ first[id][1].wp = wp THEN first
    ELSE [first EXCEPT ![id] = None]

\* a request takes the first free slot (the slots are interchangeable)
Free(s) == pc[s] = "idle" /\ \A t \in Slots : t < s => pc[t] # "idle"

Finished(s, res) ==
    /\ pc' = [pc EXCEPT ![s] = "done"]
    /\ result' = [result EXCEPT ![s] = res]

\* the login requests of the model: with the remote check succeeding (its
\* answer then decides the outcome), and with it failing for every combination
\* of identifier, secret and origin
LoginInputs ==
    { <<"a@x.com", OtherPassword, NoReq, Profile(p)>> : p \in RemoteProfiles }
    \cup { <<u, pw, req, Failure("http401")>> :
             u \in Usernames,
             pw \in {EmptyString, OtherPassword, LongDevPassword},
             req \in {NoReq, Req(<<"127","0","0","1">>), Req(<<"8","8","8","8">>)} }

\* the environments of the model of the whole service: what the reconciler
\* reads of the environment is IS_DEVELOPMENT alone
ServiceEnvironments ==
    { e \in Environments : /\ e.NODE_ENV \in {"production", "development"}
                           /\ e.DEV_MODE_PASSWORD = LongDevPassword }

Start(environments) ==
    /\ env \in environments
    /\ users = <<>>
    /\ pc = [s \in Slots |-> "idle"]
    /\ wpUser = [s \in Slots |-> NoUser]
    /\ via = [s \in Slots |-> ""]
    /\ local = [s \in Slots |-> None]
    /\ arg = [s \in Slots |-> NoArg]
    /\ result = [s \in Slots |-> NoResult]
    /\ tokens = {}
    /\ ops = 0
    /\ ledger = <<>>
    /\ firstLogin = <<>>
    /\ vcall = NoResult

Init == Start(ServiceEnvironments)

(***************************************************************************)
(* authenticateWithWordPress (services/authService.ts)                     *)
(***************************************************************************)
\* the request arrives; the credentials are verified (no store access)
StartLogin(s, username, password, req, answer) ==
    /\ Free(s)
    /\ ops < MaxOps
    /\ ops' = ops + 1
    /\ LET v == verifyWordPressCredentials(username, password, req, answer)
       IN  IF v.ok
           THEN /\ pc' = [pc EXCEPT ![s] = "byWordPressId"]
                /\ wpUser' = [wpUser EXCEPT ![s] = v.user]
                /\ via' = [via EXCEPT ![s] = v.via]
                /\ arg' = [arg EXCEPT ![s] =
                       [kind |-> "login", branch |-> "", rows |-> Len(users),
                        lookupFailed |-> FALSE,
                        unseen |-> /\ getUserByWordPressId(users, v.user.id) = None
                                   /\ getUserByEmail(users, v.user.email) = None]]
                /\ UNCHANGED result
           ELSE /\ Finished(s, Rethrown(v.error, v.message))
                /\ UNCHANGED <<wpUser, via, arg>>
    /\ UNCHANGED <<env, users, local, tokens, ledger, firstLogin, vcall>>

\* getUserOrCreateFromWordPress: `await getUserByWordPressId(wpUser.id)`
LookupByWordPressId(s) ==
    /\ pc[s] = "byWordPressId"
    /\ LET found == getUserByWordPressId(users, wpUser[s].id)
       IN  /\ local' = [local EXCEPT ![s] = found]
           /\ pc' = [pc EXCEPT ![s] =
                  IF found = None THEN "byEmail"
                  ELSE IF NeedsUpdate(found[1], wpUser[s]) THEN "updateFound"
                  ELSE "reconciled"]
           /\ arg' = [arg EXCEPT ![s].branch = IF found = None THEN "" ELSE "byId"]
    /\ UNCHANGED <<env, users, wpUser, via, result, tokens, ops, ledger,
                   firstLogin, vcall>>

\* history kept by a login's write of row `id`
LoginWrote(s, id, patch) ==
    /\ ledger' = IF "credits" \in DOMAIN patch THEN Spoil(ledger, id) ELSE ledger
    /\ firstLogin' = Forget(firstLogin, id, wpUser[s])

\* a login's `await updateUser(id, patch)` and where the login goes on to
LoginUpdate(s, id, patch, next) ==
    LET u == updateUser(users, id, patch, Now)
    IN  IF u.ok
        THEN /\ users' = u.table
             /\ local' = [local EXCEPT ![s] = Some(u.row)]
             /\ pc' = [pc EXCEPT ![s] = next]
             /\ LoginWrote(s, id, patch)
             /\ UNCHANGED result
        ELSE /\ Finished(s, Rethrown(u.error, "Failed to update user"))
             /\ UNCHANGED <<users, local, ledger, firstLogin>>

\* found by WordPress id: `await updateUser(userByWordPressId.id, {...})`
UpdateFoundById(s) ==
    /\ pc[s] = "updateFound"
    /\ LoginUpdate(s, local[s][1].id, PatchFoundById(wpUser[s]), "reconciled")
    /\ UNCHANGED <<env, wpUser, via, arg, tokens, ops, vcall>>

\* `await getUserByEmail(wpUser.email)`
LookupByEmail(s) ==
    /\ pc[s] = "byEmail"
    /\ LET found == getUserByEmail(users, wpUser[s].email)
       IN  /\ local' = [local EXCEPT ![s] = found]
           /\ pc' = [pc EXCEPT ![s] = IF found = None THEN "createCheck"
                                      ELSE "updateByEmail"]
           /\ arg' = [arg EXCEPT ![s].branch = IF found = None THEN "" ELSE "byEmail"]
    /\ UNCHANGED <<env, users, wpUser, via, result, tokens, ops, ledger,
                   firstLogin, vcall>>

\* found by email: `await updateUser(userByEmail.id, {wordpress_id: wpUser.id, ...})`
UpdateFoundByEmail(s) ==
    /\ pc[s] = "updateByEmail"
    /\ LoginUpdate(s, local[s][1].id, PatchFoundByEmail(wpUser[s]), "reconciled")
    /\ UNCHANGED <<env, wpUser, via, arg, tokens, ops, vcall>>

\* createUser: `await getUserByEmail(userData.email)`, ConflictError when found
CreateCheckEmail(s) ==
    /\ pc[s] = "createCheck"
    /\ IF getUserByEmail(users, wpUser[s].email) = None
       THEN /\ pc' = [pc EXCEPT ![s] = "insert"]
            /\ UNCHANGED result
       ELSE Finished(s, Rethrown("ConflictError", "User with email already exists"))
    /\ UNCHANGED <<env, users, wpUser, via, local, arg, tokens, ops, ledger,
                   firstLogin, vcall>>

\* createUser: `.insert({...}).select().single()`
InsertUser(s) ==
    /\ pc[s] = "insert"
    /\ LET row == NewUserRow(users, NewUserData(wpUser[s]), Now)
       IN  IF UniqueViolation(users, row)
           THEN /\ Finished(s, Rethrown("InternalServerError", "Failed to create user"))
                /\ UNCHANGED <<users, local, arg, ledger, firstLogin>>
           ELSE /\ users' = Append(users, row)
                /\ local' = [local EXCEPT ![s] = Some(row)]
                /\ pc' = [pc EXCEPT ![s] = "reconciled"]
                /\ ledger' = Append(ledger, [B |-> row.credits, succ |-> 0, valid |-> FALSE])
                /\ firstLogin' = Append(firstLogin, Some([wp |-> wpUser[s], ret |-> row]))
                /\ arg' = [arg EXCEPT ![s].branch = "created"]
                /\ UNCHANGED result
    /\ UNCHANGED <<env, wpUser, via, tokens, ops, vcall>>

IsActive_Always(user) == TRUE

\* `if (!user.active) throw ...`
IsActive(user) == user.active

\* the active check, `await updateUserMembership(user.id, membershipLevel)` and
\* generateToken; the login returns the user that the reconciliation returned
CompleteLogin(s) ==
    /\ pc[s] = "reconciled"
    /\ LET user == local[s][1]
           patch == MembershipPatch(getMembershipLevel(wpUser[s]))
           u == updateUser(users, user.id, patch, Now)
       IN  IF ~IsActive(user)
           THEN /\ Finished(s, Rethrown("UnauthorizedError", "User account is inactive"))
                /\ UNCHANGED <<users, tokens, ledger, firstLogin>>
           ELSE IF ~u.ok
           THEN /\ Finished(s, Rethrown(u.error, "Failed to update user"))
                /\ UNCHANGED <<users, tokens, ledger, firstLogin>>
           ELSE /\ users' = u.table
                /\ LoginWrote(s, user.id, patch)
                /\ tokens' = tokens \cup {generateToken(user)}
                /\ Finished(s, LoginSucceeded(user, generateToken(user)))
    /\ UNCHANGED <<env, wpUser, via, local, arg, ops, vcall>>

(***************************************************************************)
(* sendMessageToAI (controller) and consumeCredits (the credit ledger)     *)
(***************************************************************************)
Amounts == {1, 5}

\* what an await on the record store can do: answer, or fail
StorageOutcomes == {"ok", "error"}

\* what the webhook call can do: answer, or fail (axios error, not configured)
WebhookOutcomes == {"ok", "error"}

\* sendMessageToAI (controller) calls consumeCredits(req.user.id, 1) for the
\* bearer of an issued token; the service takes any amount
StartConsume(s, token, amount) ==
    /\ Free(s)
    /\ ops < MaxOps
    /\ ops' = ops + 1
    /\ pc' = [pc EXCEPT ![s] = "consumeRead"]
    /\ arg' = [arg EXCEPT ![s] = [kind |-> "consume", userId |-> token.id,
                                  amount |-> amount, failed |-> FALSE,
                                  outcome |-> NoResult]]
    /\ ledger' = IF ConsumersInFlight(token.id) = {}
                 THEN [ledger EXCEPT ![token.id] =
                         [B |-> users[token.id].credits, succ |-> 0, valid |-> amount = 1]]
                 ELSE [ledger EXCEPT ![token.id].valid = @ /\ amount = 1]
    /\ UNCHANGED <<env, users, wpUser, via, local, result, tokens, firstLogin, vcall>>

NotEnoughCredits_Never(hasCredits) == FALSE

\* `if (!hasCredits) return next(new ApiError('Not enough credits ...', 402))`
NotEnoughCredits(hasCredits) == ~hasCredits

\* consumeCredits has returned `hasCredits` to the controller, after a storage
\* failure when `failed`; the controller ends the request or goes on to the webhook
ConsumeReturned(s, hasCredits, failed) ==
    /\ arg' = [arg EXCEPT ![s].outcome = Returned(hasCredits), ![s].failed = failed]
    /\ IF NotEnoughCredits(hasCredits)
       THEN Finished(s, Consumed(hasCredits))
       ELSE /\ pc' = [pc EXCEPT ![s] = "webhook"]
            /\ UNCHANGED result

HasEnoughCredits_Always(credits, amount) == TRUE

HasEnoughCredits_Strict(credits, amount) == credits > amount

\* `if (user.credits < amount) return false`
HasEnoughCredits(credits, amount) == ~(credits < amount)

\* `const user = await getUserById(userId)` and the check of the balance;
\* getUserById throws when the store fails or has no such row, and the catch
\* block of consumeCredits returns false
ConsumeRead(s, storage) ==
    /\ pc[s] = "consumeRead"
    /\ LET user == IF storage = "ok" THEN getUserById(users, arg[s].userId) ELSE None
       IN  IF user # None /\ HasEnoughCredits(user[1].credits, arg[s].amount)
           THEN /\ local' = [local EXCEPT ![s] = user]
                /\ pc' = [pc EXCEPT ![s] = "consumeWrite"]
                /\ UNCHANGED <<result, arg>>
           ELSE /\ ConsumeReturned(s, FALSE, user = None)
                /\ UNCHANGED local
    /\ UNCHANGED <<env, users, wpUser, via, tokens, ops, ledger, firstLogin, vcall>>

\* `await updateUser(userId, {credits: user.credits - amount})`, `return true`;
\* updateUser throws when the store fails, and the catch block returns false
ConsumeWrite(s, storage) ==
    /\ pc[s] = "consumeWrite"
    /\ LET id == arg[s].userId
           u == IF storage = "ok"
                THEN updateUser(users, id, [credits |-> local[s][1].credits - arg[s].amount], Now)
                ELSE [ok |-> FALSE, error |-> "InternalServerError"]
       IN  IF u.ok
           THEN /\ users' = u.table
                /\ ConsumeReturned(s, TRUE, FALSE)
                /\ ledger' = [ledger EXCEPT ![id].succ = @ + 1]
                /\ firstLogin' = [firstLogin EXCEPT ![id] = None]
           ELSE /\ ConsumeReturned(s, FALSE, TRUE)
                /\ UNCHANGED <<users, ledger, firstLogin>>
    /\ UNCHANGED <<env, wpUser, via, local, tokens, ops, vcall>>

\* `const result = await messageService.sendMessageToAI(...)`: the webhook is
\* called; its answer is sent on, its failure goes to the error handler
InvokeWebhook(s, outcome) ==
    /\ pc[s] = "webhook"
    /\ Finished(s, Sent(arg[s].outcome.value, outcome))
    /\ UNCHANGED <<env, users, wpUser, via, local, arg, tokens, ops, ledger,
                   firstLogin, vcall>>

(***************************************************************************)
(* updateUserAdmin (PATCH /api/users/:id)                                  *)
(***************************************************************************)
AdminBodies == { [active |-> FALSE], [active |-> TRUE],
                 [role |-> USER_ROLES.ADMIN], [role |-> USER_ROLES.USER] }

\* requireAdmin passes for a token whose role claim is admin; the body's
\* fields are written to the row
UpdateUserAdmin(token, id, body) ==
    /\ ops < MaxOps
    /\ ops' = ops + 1
    /\ token.role = "admin"
    /\ LET u == updateUser(users, id, body, Now + 1)
       IN  /\ u.ok
           /\ users' = u.table
    /\ firstLogin' = [firstLogin EXCEPT ![id] = None]
    /\ UNCHANGED <<env, pc, wpUser, via, local, arg, result, tokens, ledger, vcall>>

\* the response has been sent: the slot is free again
Finish(s) ==
    /\ pc[s] = "done"
    /\ pc' = [pc EXCEPT ![s] = "idle"]
    /\ wpUser' = [wpUser EXCEPT ![s] = NoUser]
    /\ via' = [via EXCEPT ![s] = ""]
    /\ local' = [local EXCEPT ![s] = None]
    /\ arg' = [arg EXCEPT ![s] = NoArg]
    /\ result' = [result EXCEPT ![s] = NoResult]
    /\ UNCHANGED <<env, users, tokens, ops, ledger, firstLogin, vcall>>

Next ==
    \/ \E s \in Slots, in \in LoginInputs : StartLogin(s, in[1], in[2], in[3], in[4])
    \/ \E s \in Slots : LookupByWordPressId(s)
    \/ \E s \in Slots : UpdateFoundById(s)
    \/ \E s \in Slots : LookupByEmail(s)
    \/ \E s \in Slots : UpdateFoundByEmail(s)
    \/ \E s \in Slots : CreateCheckEmail(s)
    \/ \E s \in Slots : InsertUser(s)
    \/ \E s \in Slots : CompleteLogin(s)
    \/ \E s \in Slots, token \in tokens, amount \in Amounts : StartConsume(s, token, amount)
    \/ \E s \in Slots, storage \in StorageOutcomes : ConsumeRead(s, storage)
    \/ \E s \in Slots, storage \in StorageOutcomes : ConsumeWrite(s, storage)
    \/ \E s \in Slots, outcome \in WebhookOutcomes : InvokeWebhook(s, outcome)
    \/ \E token \in tokens, id \in RowIds(users), body \in AdminBodies :
            UpdateUserAdmin(token, id, body)
    \/ \E s \in Slots : Finish(s)

Spec == Init /\ [][Next]_vars

(***************************************************************************)
(* The credential verifier on its own: one call per step                   *)
(***************************************************************************)
VerifyCall(username, password, req, answer) ==
    /\ vcall.kind = "none"
    /\ vcall' = [kind |-> "verify", username |-> username, password |-> password,
                 req |-> req, answer |-> answer,
                 out |-> verifyWordPressCredentials(username, password, req, answer),
                 tried |-> PathsTried(username, password, answer),
                 dev |-> verifyWordPressCredentialsDevMode(username, password, req)]
    /\ UNCHANGED <<env, users, pc, wpUser, via, local, arg, result, tokens, ops,
                   ledger, firstLogin>>

\* the caller has taken the outcome
VerifyReturn ==
    /\ vcall.kind = "verify"
    /\ vcall' = NoResult
    /\ UNCHANGED <<env, users, pc, wpUser, via, local, arg, result, tokens, ops,
                   ledger, firstLogin>>

NextVerify ==
    \/ \E username \in Usernames, password \in Passwords, req \in Requests,
          answer \in RemoteAnswers : VerifyCall(username, password, req, answer)
    \/ VerifyReturn

InitVerify == Start(Environments)

SpecVerify == InitVerify /\ [][NextVerify]_vars

(***************************************************************************)
(* The credential verifier as a process: the call waits for the provider   *)
(***************************************************************************)
\* verifyWordPressCredentials is called: the check of the arguments, then
\* `await axios.post(...)`, which is given no timeout
VerifyBegin(username, password, req) ==
    /\ vcall.kind = "none"
    /\ vcall' = IF username = "" \/ password = EmptyString
                THEN [kind |-> "live", pc |-> "returned", username |-> username,
                      password |-> password, req |-> req, answer |-> NoResult,
                      out |-> Fail("BadRequestError", "Email and password are required")]
                ELSE [kind |-> "live", pc |-> "awaitRemote", username |-> username,
                      password |-> password, req |-> req, answer |-> NoResult,
                      out |-> NoResult]
    /\ UNCHANGED <<env, users, pc, wpUser, via, local, arg, result, tokens, ops,
                   ledger, firstLogin>>

\* the provider answers, or the connection fails: the awaited promise settles
RemoteSettles(answer) ==
    /\ vcall.kind = "live" /\ vcall.pc = "awaitRemote"
    /\ vcall' = [vcall EXCEPT !.pc = "settled", !.answer = answer]
    /\ UNCHANGED <<env, users, pc, wpUser, via, local, arg, result, tokens, ops,
                   ledger, firstLogin>>

\* the rest of verifyWordPressCredentials: the result of the remote check, or
\* the catch block with the fallback
VerifyContinue ==
    /\ vcall.kind = "live" /\ vcall.pc = "settled"
    /\ vcall' = [vcall EXCEPT !.pc = "returned",
                              !.out = verifyWordPressCredentials(vcall.username,
                                          vcall.password, vcall.req, vcall.answer)]
    /\ UNCHANGED <<env, users, pc, wpUser, via, local, arg, result, tokens, ops,
                   ledger, firstLogin>>

\* the caller has taken the outcome
VerifyLiveReturn ==
    /\ vcall.kind = "live" /\ vcall.pc = "returned"
    /\ vcall' = NoResult
    /\ UNCHANGED <<env, users, pc, wpUser, via, local, arg, result, tokens, ops,
                   ledger, firstLogin>>

NextVerifyLive ==
    \/ \E username \in Usernames, password \in Passwords, req \in Requests :
          VerifyBegin(username, password, req)
    \/ \E answer \in RemoteAnswers : RemoteSettles(answer)
    \/ VerifyContinue
    \/ VerifyLiveReturn

\* the event loop runs the steps of the verifier that are ready; nothing
\* obliges the provider to answer
SpecVerifyLive ==
    /\ InitVerify
    /\ [][NextVerifyLive]_vars
    /\ WF_vars(VerifyContinue)
    /\ WF_vars(VerifyLiveReturn)

(***************************************************************************)
(* The membership resolver and the entitlement mapper on their own         *)
(***************************************************************************)
MaxLevelLen == 3        \* longest level string of a descriptor

LevelChars == {"0", "1", "2", "9", "-", "x", " "}

LevelStrings == UNION { [1..n -> LevelChars] : n \in 0..MaxLevelLen }

\* pmpro_membership of a profile: absent, or a descriptor with a level string
Descriptors == {None} \cup { Some(Membership(l)) : l \in LevelStrings }

\* `getMembershipLevel(wpUser)` followed by `mapMembershipToCredits(level)`
ResolveCall(membership) ==
    /\ vcall.kind = "none"
    /\ LET wp == WordPressUser("7", "a@x.com", "Ann", {}, membership)
           level == getMembershipLevel(wp)
       IN  vcall' = [kind |-> "resolve", membership |-> membership, level |-> level,
                     credits |-> mapMembershipToCredits(level)]
    /\ UNCHANGED <<env, users, pc, wpUser, via, local, arg, result, tokens, ops,
                   ledger, firstLogin>>

\* the caller has taken the outcome
ResolveReturn ==
    /\ vcall.kind = "resolve"
    /\ vcall' = NoResult
    /\ UNCHANGED <<env, users, pc, wpUser, via, local, arg, result, tokens, ops,
                   ledger, firstLogin>>

NextResolve ==
    \/ \E membership \in Descriptors : ResolveCall(membership)
    \/ ResolveReturn

SpecResolve == Init /\ [][NextResolve]_vars

(***************************************************************************)
(* utils/jwt.ts on its own: a token is issued, time passes, a token is     *)
(* presented and verified                                                  *)
(***************************************************************************)
MaxTime == 3            \* seconds that pass between issue and verification

JWT_SECRET == "default_jwt_secret_dev_only"

\* values of JWT_EXPIRATION (a lifetime in seconds)
JwtExpirations == {1, 2}

\* the payloads authenticateWithWordPress signs
JwtUserPayloads == [id : {1, 2}, email : {"a@x.com", "b@x.com"},
                    role : {USER_ROLES.USER, USER_ROLES.ADMIN}]

\* the signature binds the claims to the key
Signature(claims, key) == [over |-> claims, key |-> key]

\* `jwt.sign(user, secret, { expiresIn })` at time iat: iat and exp are added
\* to the claims
sign(user, secret, expiresIn, iat) ==
    LET claims == [id |-> user.id, email |-> user.email, role |-> user.role,
                   iat |-> iat, exp |-> iat + expiresIn]
    IN  [wellFormed |-> TRUE, claims |-> claims, signature |-> Signature(claims, secret)]

\* a string that is not a token
Malformed == [wellFormed |-> FALSE]

\* `jwt.verify(token, secret)` at time now: the decoded claims, or the error
\* class thrown; the signature is checked before the expiry
verify(token, secret, now) ==
    IF ~token.wellFormed
    THEN [ok |-> FALSE, thrown |-> "JsonWebTokenError"]
    ELSE IF token.signature # Signature(token.claims, secret)
    THEN [ok |-> FALSE, thrown |-> "JsonWebTokenError"]
    ELSE IF now >= token.claims.exp
    THEN [ok |-> FALSE, thrown |-> "TokenExpiredError"]
    ELSE [ok |-> TRUE, decoded |-> token.claims]

verifyToken_Uniform(token, now) ==
    LET v == verify(token, JWT_SECRET, now)
    IN  IF v.ok THEN v
        ELSE Fail("UnauthorizedError", "Token verification failed")

\* verifyToken: TokenExpiredError is tested before its superclass JsonWebTokenError
verifyToken(token, now) ==
    LET v == verify(token, JWT_SECRET, now)
    IN  IF v.ok THEN v
        ELSE IF v.thrown = "TokenExpiredError"
        THEN Fail("UnauthorizedError", "Token expired")
        ELSE IF v.thrown = "JsonWebTokenError"
        THEN Fail("UnauthorizedError", "Invalid token")
        ELSE Fail("UnauthorizedError", "Token verification failed")

\* what a client can present in place of the token it was issued
Forgeries(token) ==
    { Malformed,
      sign(token.claims, "another secret", token.claims.exp - token.claims.iat,
           token.claims.iat),
      [token EXCEPT !.claims.role = USER_ROLES.ADMIN, !.claims.exp = MaxTime + 1] }
    \ {token}

\* `generateToken(user)` at time 0
TokenIssue(user, expiresIn) ==
    /\ vcall.kind = "none"
    /\ LET token == sign(generateToken(user), JWT_SECRET, expiresIn, 0)
       IN  vcall' = [kind |-> "token", user |-> user, token |-> token,
                     presented |-> token, now |-> 0, out |-> NoResult]
    /\ UNCHANGED <<env, users, pc, wpUser, via, local, arg, result, tokens, ops,
                   ledger, firstLogin>>

\* a second passes
TokenTick ==
    /\ vcall.kind = "token" /\ vcall.out = NoResult
    /\ vcall.now < MaxTime
    /\ vcall' = [vcall EXCEPT !.now = @ + 1]
    /\ UNCHANGED <<env, users, pc, wpUser, via, local, arg, result, tokens, ops,
                   ledger, firstLogin>>

\* the client presents something else than the token it was issued
TokenForge(forgery) ==
    /\ vcall.kind = "token" /\ vcall.out = NoResult
    /\ vcall.presented = vcall.token
    /\ forgery \in Forgeries(vcall.token)
    /\ vcall' = [vcall EXCEPT !.presented = forgery]
    /\ UNCHANGED <<env, users, pc, wpUser, via, local, arg, result, tokens, ops,
                   ledger, firstLogin>>

\* `verifyToken(token)`
TokenVerify ==
    /\ vcall.kind = "token" /\ vcall.out = NoResult
    /\ vcall' = [vcall EXCEPT !.out = verifyToken(vcall.presented, vcall.now)]
    /\ UNCHANGED <<env, users, pc, wpUser, via, local, arg, result, tokens, ops,
                   ledger, firstLogin>>

\* the caller has taken the outcome
TokenReturn ==
    /\ vcall.kind = "token" /\ vcall.out # NoResult
    /\ vcall' = NoResult
    /\ UNCHANGED <<env, users, pc, wpUser, via, local, arg, result, tokens, ops,
                   ledger, firstLogin>>

NextToken ==
    \/ \E user \in JwtUserPayloads, expiresIn \in JwtExpirations : TokenIssue(user, expiresIn)
    \/ TokenTick
    \/ \E user \in JwtUserPayloads, expiresIn \in JwtExpirations :
          \E forgery \in Forgeries(sign(user, JWT_SECRET, expiresIn, 0)) : TokenForge(forgery)
    \/ TokenVerify
    \/ TokenReturn

SpecToken == Init /\ [][NextToken]_vars

(***************************************************************************)
(* The authenticate middleware on its own                                  *)
(***************************************************************************)
\* the empty string after 'Bearer '
EmptyToken == [wellFormed |-> FALSE, text |-> ""]

\* tokens a request can carry, all issued at time 0 for 2 seconds: genuine
\* ones, one signed with another key, a string that is no token, ''
AuthTokens ==
    { sign(user, JWT_SECRET, 2, 0) : user \in JwtUserPayloads }
    \cup { sign([id |-> 1, email |-> "a@x.com", role |-> USER_ROLES.ADMIN],
                "another secret", 2, 0),
           Malformed, EmptyToken }

\* the Authorization header: absent, or a scheme and what follows it
AuthHeaders ==
    { None, Some([scheme |-> "Basic", rest |-> Malformed]) }
    \cup { Some([scheme |-> "Bearer", rest |-> t]) : t \in AuthTokens }

\* the access_token cookie
AuthCookies == { None } \cup { Some(t) : t \in AuthTokens }

AuthPaths == { "/session", "/messages/examples", "/conversations" }

\* the times at which the request arrives: before and after the expiry
AuthTimes == { 1, 3 }

\* extractTokenFromHeader(authHeader): null unless the header starts with 'Bearer '
extractTokenFromHeader(authHeader) ==
    IF authHeader = None \/ authHeader[1].scheme # "Bearer" THEN None
    ELSE Some(authHeader[1].rest)

\* `!token`: null, undefined and '' are falsy
NoToken(token) == token = None \/ token = Some(EmptyToken)

\* the outcomes of the middleware: next() with or without req.user, next(error)
Continue(user) == [next |-> "continue", user |-> user]

NextError(kind, message) == [next |-> "error", user |-> None, error |-> kind, message |-> message]

IsOpenPath(path) == path = "/session" \/ path = "/messages/examples"

authenticate_NoOpenPath(authHeader, cookie, path, now) ==
    LET token == extractTokenFromHeader(authHeader)
    IN  IF NoToken(token) /\ NoToken(cookie)
        THEN IF IsOpenPath(path) THEN Continue(None)
             ELSE NextError("UnauthorizedError", "Authentication required")
        ELSE LET tokenToVerify == IF ~NoToken(token) THEN token[1] ELSE cookie[1]
                 decoded == verifyToken(tokenToVerify, now)
             IN  IF decoded.ok
                 THEN Continue(Some([id |-> decoded.decoded.id,
                                     email |-> decoded.decoded.email,
                                     role |-> decoded.decoded.role]))
                 ELSE NextError("UnauthorizedError", "Invalid authentication token")

authenticate(authHeader, cookie, path, now) ==
    LET token == extractTokenFromHeader(authHeader)
    IN  IF NoToken(token) /\ NoToken(cookie)
        THEN IF IsOpenPath(path) THEN Continue(None)
             ELSE NextError("UnauthorizedError", "Authentication required")
        ELSE LET tokenToVerify == IF ~NoToken(token) THEN token[1] ELSE cookie[1]
                 decoded == verifyToken(tokenToVerify, now)
             IN  IF decoded.ok
                 THEN Continue(Some([id |-> decoded.decoded.id,
                                     email |-> decoded.decoded.email,
                                     role |-> decoded.decoded.role]))
                 ELSE IF IsOpenPath(path) THEN Continue(None)
                 ELSE NextError("UnauthorizedError", "Invalid authentication token")

AuthCall(authHeader, cookie, path, now) ==
    /\ vcall.kind = "none"
    /\ vcall' = [kind |-> "auth", authHeader |-> authHeader, cookie |-> cookie,
                 path |-> path, now |-> now,
                 out |-> authenticate(authHeader, cookie, path, now)]
    /\ UNCHANGED <<env, users, pc, wpUser, via, local, arg, result, tokens, ops,
                   ledger, firstLogin>>

\* the next handler, or the error handler, has taken over
AuthReturn ==
    /\ vcall.kind = "auth"
    /\ vcall' = NoResult
    /\ UNCHANGED <<env, users, pc, wpUser, via, local, arg, result, tokens, ops,
                   ledger, firstLogin>>

NextAuth ==
    \/ \E authHeader \in AuthHeaders, cookie \in AuthCookies, path \in AuthPaths,
          now \in AuthTimes : AuthCall(authHeader, cookie, path, now)
    \/ AuthReturn

SpecAuth == Init /\ [][NextAuth]_vars

(***************************************************************************)
(* One request at a time                                                   *)
(***************************************************************************)
\* the slots that hold a request: it is in flight, or its response is not yet sent
Busy == { s \in Slots : pc[s] # "idle" }

NextSeq == Next /\ Cardinality(Busy') <= 1

SpecSeq == Init /\ [][NextSeq]_vars

(***************************************************************************)
(* One request at a time, the send-message requests with their validation  *)
(***************************************************************************)
\* the rows of cjpol_conversations
Conversations ==
    [c1 |-> [id |-> "c1", user_id |-> 1, session_id |-> "s1"],
     c2 |-> [id |-> "c2", user_id |-> 2, session_id |-> "s2"]]

\* conversationService.getConversationById: null when there is no such row
getConversationById(conversationId) ==
    IF conversationId \in DOMAIN Conversations THEN Some(Conversations[conversationId])
    ELSE None

\* req.body of a send-message request; '' stands for a field that is absent
SendBodies ==
    [conversationId : {"", "c1", "c2", "c9"}, content : {"", "hello"},
     sessionId : {"", "s1"}]

\* the answer of the controller to a request it ends before the ledger step
Rejected(status, message) ==
    [kind |-> "rejected", status |-> status, message |-> message, webhook |-> "none"]

Accepted == [kind |-> "accepted"]

ValidateSend_NoOwnerCheck(user, body) ==
    IF user = None THEN Rejected(401, "User not authenticated")
    ELSE IF body.content = "" THEN Rejected(400, "Message content is required")
    ELSE IF body.conversationId # ""
    THEN LET fetchedConversation == getConversationById(body.conversationId)
         IN  IF fetchedConversation = None THEN Rejected(404, "Conversation not found")
             ELSE Accepted
    ELSE IF body.sessionId = ""
    THEN Rejected(400, "Session ID is required for new conversations")
    ELSE Accepted

\* sendMessageToAI (controller): the checks before consumeCredits, in order
ValidateSend(user, body) ==
    IF user = None THEN Rejected(401, "User not authenticated")
    ELSE IF body.content = "" THEN Rejected(400, "Message content is required")
    ELSE IF body.conversationId # ""
    THEN LET fetchedConversation == getConversationById(body.conversationId)
         IN  IF fetchedConversation = None THEN Rejected(404, "Conversation not found")
             ELSE IF fetchedConversation[1].user_id # user[1].id
             THEN Rejected(403, "Not authorized to send messages to this conversation")
             ELSE Accepted
    ELSE IF body.sessionId = ""
    THEN Rejected(400, "Session ID is required for new conversations")
    ELSE Accepted

\* a send-message request arrives with req.user as authenticate left it; it is
\* ended by a check, or goes on to `consumeCredits(userId, 1)`
StartSendMessage(s, user, body) ==
    /\ Free(s)
    /\ ops < MaxOps
    /\ ops' = ops + 1
    /\ LET v == ValidateSend(user, body)
       IN  IF v = Accepted
           THEN /\ pc' = [pc EXCEPT ![s] = "consumeRead"]
                /\ arg' = [arg EXCEPT ![s] =
                       [kind |-> "consume", userId |-> user[1].id, amount |-> 1,
                        failed |-> FALSE, outcome |-> NoResult,
                        request |-> [user |-> user, body |-> body]]]
                /\ ledger' = [ledger EXCEPT ![user[1].id] =
                                 [B |-> users[user[1].id].credits, succ |-> 0,
                                  valid |-> TRUE]]
                /\ UNCHANGED result
           ELSE /\ arg' = [arg EXCEPT ![s] =
                       [kind |-> "send", request |-> [user |-> user, body |-> body]]]
                /\ Finished(s, v)
                /\ UNCHANGED ledger
    /\ UNCHANGED <<env, users, wpUser, via, local, tokens, firstLogin, vcall>>

NextSend ==
    /\ \/ \E s \in Slots, in \in LoginInputs : StartLogin(s, in[1], in[2], in[3], in[4])
       \/ \E s \in Slots : LookupByWordPressId(s)
       \/ \E s \in Slots : UpdateFoundById(s)
       \/ \E s \in Slots : LookupByEmail(s)
       \/ \E s \in Slots : UpdateFoundByEmail(s)
       \/ \E s \in Slots : CreateCheckEmail(s)
       \/ \E s \in Slots : InsertUser(s)
       \/ \E s \in Slots : CompleteLogin(s)
       \/ \E s \in Slots, user \in {None} \cup { Some(t) : t \in tokens },
             body \in SendBodies : StartSendMessage(s, user, body)
       \/ \E s \in Slots, storage \in StorageOutcomes : ConsumeRead(s, storage)
       \/ \E s \in Slots, storage \in StorageOutcomes : ConsumeWrite(s, storage)
       \/ \E s \in Slots, outcome \in WebhookOutcomes : InvokeWebhook(s, outcome)
       \/ \E s \in Slots : Finish(s)
    /\ Cardinality(Busy') <= 1

SpecSend == Init /\ [][NextSend]_vars

(***************************************************************************)
(* One request at a time on a store whose lookups can fail                 *)
(***************************************************************************)
\* `if (error || !data) return null`: what getUserByWordPressId and
\* getUserByEmail return when the store answers the query with an error
LookupFailed == None

\* getUserOrCreateFromWordPress: `await getUserByWordPressId(wpUser.id)`, the
\* store fails
LookupByWordPressIdError(s) ==
    /\ pc[s] = "byWordPressId"
    /\ local' = [local EXCEPT ![s] = LookupFailed]
    /\ pc' = [pc EXCEPT ![s] = "byEmail"]
    /\ arg' = [arg EXCEPT ![s].lookupFailed = TRUE]
    /\ UNCHANGED <<env, users, wpUser, via, result, tokens, ops, ledger,
                   firstLogin, vcall>>

\* `await getUserByEmail(wpUser.email)`, the store fails
LookupByEmailError(s) ==
    /\ pc[s] = "byEmail"
    /\ local' = [local EXCEPT ![s] = LookupFailed]
    /\ pc' = [pc EXCEPT ![s] = "createCheck"]
    /\ arg' = [arg EXCEPT ![s].lookupFailed = TRUE]
    /\ UNCHANGED <<env, users, wpUser, via, result, tokens, ops, ledger,
                   firstLogin, vcall>>

\* createUser: `await getUserByEmail(userData.email)`, the store fails
CreateCheckEmailError(s) ==
    /\ pc[s] = "createCheck"
    /\ pc' = [pc EXCEPT ![s] = "insert"]
    /\ arg' = [arg EXCEPT ![s].lookupFailed = TRUE]
    /\ UNCHANGED <<env, users, wpUser, via, local, result, tokens, ops, ledger,
                   firstLogin, vcall>>

NextFaulty ==
    \/ NextSeq
    \/ \E s \in Slots : LookupByWordPressIdError(s)
    \/ \E s \in Slots : LookupByEmailError(s)
    \/ \E s \in Slots : CreateCheckEmailError(s)

SpecFaulty == Init /\ [][NextFaulty]_vars

(***************************************************************************)
(* One request at a time on a table that already holds a row without a     *)
(* wordpress_id (the column is nullable: `wordpress_id: string | null`)    *)
(***************************************************************************)
\* a row of cjpol_users that no login has linked yet
EmailOnlyRow(email) ==
    [id |-> 1, email |-> email, name |-> "Ann", wordpress_id |-> NULL,
     role |-> USER_ROLES.USER, active |-> TRUE, credits |-> 3,
     subscription |-> MEMBERSHIP_NAMES.FREE, wordpress_membership_id |-> None,
     wordpress_membership_name |-> NULL, updated_at |-> 0]

InitEmailOnly ==
    /\ env \in ServiceEnvironments
    /\ \E email \in {"a@x.com", DEV_MODE_EMAIL} : users = <<EmailOnlyRow(email)>>
    /\ pc = [s \in Slots |-> "idle"]
    /\ wpUser = [s \in Slots |-> NoUser]
    /\ via = [s \in Slots |-> ""]
    /\ local = [s \in Slots |-> None]
    /\ arg = [s \in Slots |-> NoArg]
    /\ result = [s \in Slots |-> NoResult]
    /\ tokens = {}
    /\ ops = 0
    /\ ledger = <<[B |-> 3, succ |-> 0, valid |-> FALSE]>>
    /\ firstLogin = <<None>>
    /\ vcall = NoResult

SpecEmailOnly == InitEmailOnly /\ [][NextSeq]_vars

(***************************************************************************)
(* Properties                                                              *)
(***************************************************************************)
LoginDone(s) == pc[s] = "done" /\ result[s].kind = "login"

LoginOk(s) == LoginDone(s) /\ result[s].ok

ConsumeDone(s) == pc[s] = "done" /\ result[s].kind = "consume"

\* C1: in a run of consumeCredits(userId, 1) calls on one row that starts at
\* balance B and that nothing else disturbs, the calls that returned true
\* never outnumber B, and once no call is in flight the stored balance is B
\* minus the number of calls that returned true.
C1_NoLostUpdate ==
    \A id \in RowIds(users) :
        ledger[id].valid =>
            /\ ledger[id].succ <= ledger[id].B
            /\ ConsumersInFlight(id) = {} =>
                   users[id].credits = ledger[id].B - ledger[id].succ

\* C2: every stored user's credit balance is >= 0 in every reachable state.
C2_BalanceNonNegative == \A id \in RowIds(users) : users[id].credits >= 0

\* a call was refused for insufficient credits and the balance is 0
C2_Witness ==
    \E s \in Slots :
        /\ ConsumeDone(s) /\ ~result[s].value /\ ~arg[s].failed
        /\ users[arg[s].userId].credits = 0

\* C3: the step that completes a login of a normal (remote, not dev mode) user
\* whose resolved membership level equals the stored snapshot, on a row that
\* credits were consumed from, leaves the row's credit balance as it was.
C3_LoginKeepsConsumedBalance ==
    [][\A s \in Slots :
          ( /\ pc[s] = "reconciled" /\ LoginOk(s)'
            /\ via[s] = "remote" /\ ~isDevModeUser(wpUser[s])
            /\ users[local[s][1].id].wordpress_membership_id
                   = Some(getMembershipLevel(wpUser[s]).id)
            /\ ledger[local[s][1].id].succ > 0 )
          => users'[local[s][1].id].credits = users[local[s][1].id].credits]_vars

SameUser(u, v) ==
    /\ u.id = v.id /\ u.email = v.email /\ u.name = v.name
    /\ u.role = v.role /\ u.credits = v.credits /\ u.subscription = v.subscription

\* C4: with one request at a time, a login whose identity matched no row by
\* subject id or email succeeds and adds exactly one row; a later login with
\* the same identity, on the row as the logins of that identity left it, adds
\* no row and returns a user equal to the one the first login returned in id,
\* email, name, role, credits and subscription.
C4_LoginIdempotent ==
    \A s \in Slots :
        /\ ( pc[s] = "done" /\ arg[s].kind = "login" /\ arg[s].unseen ) =>
               /\ LoginOk(s)
               /\ arg[s].branch = "created"
               /\ Len(users) = arg[s].rows + 1
        /\ ( LoginOk(s) /\ arg[s].branch # "created"
             /\ firstLogin[result[s].user[1].id] # None
             /\ firstLogin[result[s].user[1].id][1].wp = wpUser[s] ) =>
               /\ Len(users) = arg[s].rows
               /\ SameUser(result[s].user[1], firstLogin[result[s].user[1].id][1].ret)

\* a second login of the identity that created the row has completed
C4_Witness ==
    \E s \in Slots :
        /\ LoginOk(s) /\ arg[s].branch = "byId"
        /\ firstLogin[result[s].user[1].id] # None
        /\ firstLogin[result[s].user[1].id][1].wp = wpUser[s]
        /\ via[s] = "fallback"

\* the rows that carry the subject id `id`, and those that carry the email
RowsWithId(id) == { i \in RowIds(users) : users[i].wordpress_id = id }

RowsWithEmail(email) == { i \in RowIds(users) : users[i].email = email }

\* C5: while two concurrent logins carry the same identity, which neither
\* found in the table when it began, the table holds at most one row with that
\* subject id and at most one row with that email, and the two logins have
\* not both inserted a row that carries the subject id or the email.
C5_OneCreatePerIdentity ==
    \A s, t \in Slots :
        ( /\ s # t
          /\ arg[s].kind = "login" /\ arg[t].kind = "login"
          /\ wpUser[s] = wpUser[t]
          /\ arg[s].unseen /\ arg[t].unseen ) =>
            /\ Cardinality(RowsWithId(wpUser[s].id)) <= 1
            /\ Cardinality(RowsWithEmail(wpUser[s].email)) <= 1
            /\ ( arg[s].branch = "created" /\ arg[t].branch = "created" ) =>
                   \E u \in {s, t} :
                       /\ local[u][1].id \notin RowsWithId(wpUser[s].id)
                       /\ local[u][1].id \notin RowsWithEmail(wpUser[s].email)

\* both logins reached the insert; one inserted, the other was refused
C5_Witness ==
    \E s, t \in Slots :
        /\ s # t
        /\ arg[s].kind = "login" /\ arg[t].kind = "login"
        /\ wpUser[s] = wpUser[t]
        /\ arg[s].unseen /\ arg[t].unseen
        /\ arg[s].branch = "created"
        /\ LoginDone(t) /\ ~result[t].ok /\ result[t].message = "Authentication failed"

\* C6: no two rows have the same email, and no two rows have the same
\* non-null wordpress_id.
C6_UniqueIdentityKeys ==
    \A i, j \in RowIds(users) :
        i # j =>
            /\ users[i].email # users[j].email
            /\ users[i].wordpress_id = NULL \/ users[i].wordpress_id # users[j].wordpress_id

\* a login that would have given a row the email of another row was refused
C6_Witness ==
    \E s \in Slots :
        /\ LoginDone(s) /\ ~result[s].ok /\ arg[s].kind = "login"
        /\ arg[s].branch = "byId"
        /\ \E i \in RowIds(users) :
              i # local[s][1].id /\ users[i].email = wpUser[s].email

\* C7: when the reconciliation has returned, on each of its branches, the
\* role of the user is admin if the identity's roles contain 'administrator'
\* and user otherwise.
C7_RoleFromRolesOnly ==
    \A s \in Slots :
        pc[s] = "reconciled" =>
            local[s][1].role = ( IF "administrator" \in wpUser[s].roles
                                 THEN "admin" ELSE "user" )

NonEmptyCall == vcall.kind = "verify" /\ vcall.username # "" /\ vcall.password # EmptyString

\* C8: in production mode a verification whose remote check failed fails with
\* the authentication error, whatever the identifier, secret and origin, and
\* the fallback verifier itself never returns an identity.
C8_NoFallbackInProduction ==
    ( NonEmptyCall /\ NODE_ENV = "production" ) =>
        /\ ~vcall.dev.ok
        /\ vcall.answer.kind = "failure" =>
              ( ~vcall.out.ok /\ vcall.out.error = "UnauthorizedError" )
        /\ vcall.out.ok => vcall.out.via = "remote"

\* production, the configured fallback pair from the loopback address, remote check failed
C8_Witness ==
    /\ NonEmptyCall /\ NODE_ENV = "production"
    /\ Len(DEV_MODE_PASSWORD) >= 12
    /\ vcall.username = DEV_MODE_EMAIL /\ vcall.password = DEV_MODE_PASSWORD
    /\ vcall.req = Req(<<"127","0","0","1">>)
    /\ vcall.answer.kind = "failure"
    /\ ~vcall.out.ok

\* an origin that is the loopback address or lies in a private range
\* (10/8, 172.16/12, 192.168/16)
LoopbackOrPrivate(req) ==
    /\ req.present /\ req.ip # EmptyString
    /\ \/ req.ip \in { <<"127","0","0","1">>, <<"::1">> }
       \/ req.ip[1] = "10"
       \/ req.ip[1] = "192" /\ req.ip[2] = "168"
       \/ req.ip[1] = "172" /\ req.ip[2] \in {"16", "17", "18", "19", "20", "21", "22",
              "23", "24", "25", "26", "27", "28", "29", "30", "31"}

\* C9: the fallback verifier returns an identity only if the environment is
\* not production, a fallback email and a secret of at least 12 characters
\* are configured, the origin is loopback or private, and the identifier and
\* secret equal the configured pair.
C9_FallbackOnlyIfAll ==
    ( vcall.kind = "verify" /\ vcall.dev.ok ) =>
        /\ NODE_ENV # "production"
        /\ DEV_MODE_EMAIL # "" /\ Len(DEV_MODE_PASSWORD) >= 12
        /\ LoopbackOrPrivate(vcall.req)
        /\ vcall.username = DEV_MODE_EMAIL /\ vcall.password = DEV_MODE_PASSWORD

InactiveAccount == LoginFailed("UnauthorizedError", "User account is inactive")

\* C10: when the reconciliation has returned a user with active = false, the
\* login ends with the inactive-account error and issues no token.
C10_InactiveRejected ==
    [][\A s \in Slots :
          ( pc[s] = "reconciled" /\ ~local[s][1].active /\ pc'[s] # "reconciled" )
          => ( pc'[s] = "done" /\ result'[s] = InactiveAccount /\ tokens' = tokens )]_vars

\* a login that found an inactive row by email was rejected
C10_Witness ==
    \E s \in Slots :
        /\ LoginDone(s) /\ result[s] = InactiveAccount
        /\ arg[s].branch = "byEmail"

\* the number a level string denotes when it is, apart from surrounding
\* blanks, an optionally signed run of decimal digits; None when it is not
NumericLevel(s) ==
    LET solid == { k \in 1..Len(s) : s[k] # " " }
        first == IF solid = {} THEN 1 ELSE CHOOSE k \in solid : \A m \in solid : k <= m
        last == IF solid = {} THEN 0 ELSE CHOOSE k \in solid : \A m \in solid : m <= k
        signed == first <= last /\ s[first] \in {"-", "+"}
        from == IF signed THEN first + 1 ELSE first
    IN  IF from > last \/ \E k \in from..last : ~IsDigit(s[k]) THEN None
        ELSE IF signed /\ s[first] = "-" THEN Some(0 - ParseDigits(s, from, 0))
        ELSE Some(ParseDigits(s, from, 0))

\* C11: resolving a membership descriptor and mapping the result to credits
\* gives 20 when the level is the number 2, 10 when it is the number 1, and 5
\* for every other level (0, negative, not a number, any other number) and
\* for an absent descriptor; the resolver returns one of the known levels.
C11_CreditsByLevel ==
    vcall.kind = "resolve" =>
        LET n == IF vcall.membership = None THEN None
                 ELSE NumericLevel(vcall.membership[1].level)
        IN  /\ vcall.level.id \in {MEMBERSHIP_LEVELS.FREE, MEMBERSHIP_LEVELS.BASIC,
                                    MEMBERSHIP_LEVELS.COMPLETE}
            /\ vcall.credits = ( IF n = Some(2) THEN 20 ELSE IF n = Some(1) THEN 10 ELSE 5 )

\* a row at the DEVELOPER level: by its membership snapshot, its subscription
\* or its credit allotment
IsDeveloperRow(row) ==
    \/ row.wordpress_membership_id = Some(MEMBERSHIP_LEVELS.DEVELOPER)
    \/ row.subscription = MEMBERSHIP_NAMES.DEVELOPER
    \/ row.credits \in {MEMBERSHIP_CREDITS.DEVELOPER, DEV_MODE_CREDITS}

\* C12: when a login of an identity verified by the remote provider has
\* ended, the row it was reconciled with is not at the DEVELOPER level: not by
\* its membership snapshot, its subscription or its credits.
C12_DeveloperOnlyViaFallback ==
    \A s \in Slots :
        ( LoginDone(s) /\ via[s] = "remote" /\ local[s] # None ) =>
            ~IsDeveloperRow(users[local[s][1].id])

\* C13: when a login of the identity produced by the local fallback has
\* succeeded, its membership resolves to DEVELOPER, which maps to 500 credits,
\* and the stored user has the developer subscription and those credits.
C13_FallbackIsDeveloper ==
    \A s \in Slots :
        ( LoginOk(s) /\ via[s] = "fallback" ) =>
            LET level == getMembershipLevel(wpUser[s])
                row == users[result[s].user[1].id]
            IN  /\ level.id = MEMBERSHIP_LEVELS.DEVELOPER
                /\ mapMembershipToCredits(level) = MEMBERSHIP_CREDITS.DEVELOPER
                /\ row.subscription = MEMBERSHIP_NAMES.DEVELOPER
                /\ row.credits = MEMBERSHIP_CREDITS.DEVELOPER

\* the consumeCredits call of slot s has returned
ConsumeHasReturned(s) == arg[s].kind = "consume" /\ arg[s].outcome # NoResult

\* C14: with one request at a time and no storage failure, consumeCredits
\* returns true exactly when the balance it found is at least the amount; the
\* balance afterwards is the previous balance minus the amount when it
\* returned true, and the previous balance when it returned false.
C14_ConsumeSequential ==
    \A s \in Slots :
        ( ConsumeHasReturned(s) /\ ~arg[s].failed ) =>
            LET B == ledger[arg[s].userId].B
                returned == arg[s].outcome.value
            IN  /\ returned <=> B >= arg[s].amount
                /\ users[arg[s].userId].credits =
                       ( IF returned THEN B - arg[s].amount ELSE B )

\* balance 0, amount 1: the call returned false and the balance is still 0
C14_Witness ==
    \E s \in Slots :
        /\ ConsumeHasReturned(s) /\ ~arg[s].failed
        /\ arg[s].outcome = Returned(FALSE) /\ arg[s].amount = 1
        /\ ledger[arg[s].userId].B = 0
        /\ users[arg[s].userId].credits = 0

\* C15: a consumeCredits call during which a storage read or write failed
\* does not return a boolean: it throws an internal error to its caller.
C15_StorageErrorSurfaces ==
    \A s \in Slots :
        ( ConsumeHasReturned(s) /\ arg[s].failed ) =>
            /\ arg[s].outcome.kind = "threw"
            /\ arg[s].outcome.error = "InternalServerError"

\* C16: with one request at a time, the webhook of a send-message request is
\* invoked only after consumeCredits returned true to that request; a request
\* whose consumeCredits returned false has ended without the webhook; and
\* after a failed webhook call the balance is still the decremented one.
C16_WebhookAfterConsume ==
    \A s \in Slots :
        arg[s].kind = "consume" =>
            /\ ( pc[s] = "webhook" \/ ( ConsumeDone(s) /\ result[s].webhook # "none" ) )
                   => arg[s].outcome = Returned(TRUE)
            /\ arg[s].outcome = Returned(FALSE)
                   => ( ConsumeDone(s) /\ result[s].webhook = "none" )
            /\ ( ConsumeDone(s) /\ result[s].webhook = "error" )
                   => users[arg[s].userId].credits
                          = ledger[arg[s].userId].B - arg[s].amount

\* the webhook failed after a successful consume
C16_Witness ==
    \E s \in Slots :
        /\ ConsumeDone(s) /\ result[s].webhook = "error"
        /\ arg[s].outcome = Returned(TRUE) /\ arg[s].amount = 1

AuthenticationError ==
    Fail("UnauthorizedError", "Authentication failed. Please check server logs for details.")

\* C17: a verification with a missing identifier or secret fails with the
\* bad-request error and enters no verification path; every other failed
\* verification fails with one and the same authentication error, whichever
\* path failed and for whatever reason.
C17_UniformAuthError ==
    vcall.kind = "verify" =>
        /\ ( vcall.username = "" \/ vcall.password = EmptyString ) =>
               /\ vcall.out = Fail("BadRequestError", "Email and password are required")
               /\ vcall.tried = <<>>
        /\ ( NonEmptyCall /\ ~vcall.out.ok ) => vcall.out = AuthenticationError

\* the remote check could not connect and the fallback refused the origin
C17_Witness ==
    /\ NonEmptyCall /\ ~vcall.out.ok
    /\ vcall.tried = <<"remote", "fallback">>
    /\ vcall.answer = Failure("econnrefused")
    /\ vcall.dev.message = "Dev mode authentication is only available from local networks"

\* C18: a row that the reconciliation has just created has the role that the
\* identity's roles give (admin iff they contain 'administrator'), is active,
\* carries the credits and the subscription mapped from the resolved
\* membership level, records that level (id and name) as its membership
\* snapshot and has the identity's subject id attached; for no roles and no
\* membership descriptor it has role 'user', 5 credits and subscription 'free'.
C18_CreatedRow ==
    \A s \in Slots :
        ( pc[s] = "reconciled" /\ arg[s].kind = "login" /\ arg[s].branch = "created" ) =>
            LET row == local[s][1]
                level == getMembershipLevel(wpUser[s])
            IN  /\ row.role = ( IF "administrator" \in wpUser[s].roles
                                THEN "admin" ELSE "user" )
                /\ row.active
                /\ row.credits = mapMembershipToCredits(level)
                /\ row.subscription = level.name
                /\ row.wordpress_membership_id = Some(level.id)
                /\ row.wordpress_membership_name = level.name
                /\ row.wordpress_id = wpUser[s].id
                /\ ( wpUser[s].roles = {} /\ wpUser[s].pmpro_membership = None ) =>
                       /\ row.role = "user"
                       /\ row.credits = 5
                       /\ row.subscription = "free"

TokenVerified == vcall.kind = "token" /\ vcall.out # NoResult

TokenExpired == Fail("UnauthorizedError", "Token expired")

\* C19: a token verified in the second it was issued yields claims with the
\* id, email and role it was issued for; the issued token verified at or
\* after its expiry fails with the expired outcome; and a malformed or
\* wrongly signed token fails with an outcome that differs from the expired one.
C19_TokenRoundTrip ==
    TokenVerified =>
        /\ ( vcall.presented = vcall.token /\ vcall.now = 0 ) =>
               /\ vcall.out.ok
               /\ vcall.out.decoded.id = vcall.user.id
               /\ vcall.out.decoded.email = vcall.user.email
               /\ vcall.out.decoded.role = vcall.user.role
        /\ ( vcall.presented = vcall.token /\ vcall.now >= vcall.token.claims.exp ) =>
               vcall.out = TokenExpired
        /\ ( vcall.presented # vcall.token ) =>
               ( ~vcall.out.ok /\ vcall.out # TokenExpired )

\* the issued token was verified after its expiry
C19_Witness ==
    /\ TokenVerified
    /\ vcall.presented = vcall.token
    /\ vcall.now >= vcall.token.claims.exp
    /\ vcall.out = TokenExpired

\* the store would reject the row that login s is about to insert
InsertRejected(s) ==
    /\ pc[s] = "insert"
    /\ UniqueViolation(users, NewUserRow(users, NewUserData(wpUser[s]), Now))

\* C20: a login of a previously unseen identity whose insert the store
\* rejects on a unique constraint, because a concurrent login of the same
\* identity inserted the row first, does not fail: it goes on to look the
\* row up.
C20_LoserFallsBack ==
    [][ \A s \in Slots :
          ( InsertRejected(s) /\ arg[s].unseen /\ pc'[s] # pc[s] )
          => ~( pc'[s] = "done" /\ ~result'[s].ok ) ]_vars

\* C21: no step changes a non-null wordpress_id of a row to another value;
\* in particular a login that finds, by email, a row linked to another
\* subject id does not overwrite the link.
C21_LinkedIdNeverChanges ==
    [][ \A i \in RowIds(users) :
          users[i].wordpress_id # NULL => users'[i].wordpress_id = users[i].wordpress_id ]_vars

\* a login that has looked for its subject id, and has not itself linked or
\* created a row, took the found-by-id branch if a row carries its subject id
FoundBySubjectId ==
    \A s \in Slots :
        ( /\ arg[s].kind = "login"
          /\ pc[s] # "byWordPressId"
          /\ arg[s].branch \notin {"byEmail", "created"}
          /\ \E i \in RowIds(users) : users[i].wordpress_id = wpUser[s].id )
        => ( arg[s].branch = "byId" /\ Len(users) = arg[s].rows )

\* C22: with one request at a time, a login that found by email a row without
\* a wordpress_id attaches its subject id to that row and adds no row; a
\* later login with that subject id finds the row by the subject id and adds
\* no row either.
C22_EmailOnlyRowIsLinked ==
    [][ /\ \A s \in Slots :
             ( /\ pc[s] = "updateByEmail"
               /\ local[s][1].wordpress_id = NULL
               /\ pc'[s] # pc[s] )
             => /\ pc'[s] = "reconciled"
                /\ users'[local[s][1].id].wordpress_id = wpUser[s].id
                /\ Len(users') = arg[s].rows
        /\ FoundBySubjectId' ]_vars

\* the row that was without a wordpress_id has been found by subject id
C22_Witness ==
    \E s \in Slots :
        /\ arg[s].kind = "login" /\ arg[s].branch = "byId"
        /\ pc[s] = "reconciled"
        /\ local[s][1].id = 1
        /\ Len(users) = 1

\* with one request at a time: the reconciliation of login s returned the row
\* it found by subject id without writing it
ReturnedUnchanged(s) ==
    /\ arg[s].kind = "login" /\ arg[s].branch = "byId"
    /\ pc[s] = "reconciled"
    /\ users[local[s][1].id].updated_at # Now

\* C23: with one request at a time, a login that found its row by subject id
\* with the name, email and role (and, for the fallback identity, the
\* credits) that the identity gives performs no write: every column of the
\* row, updated_at included, is after the login what it was before.
C23_NoOpLoginWritesNothing ==
    [][ \A s \in Slots :
          ReturnedUnchanged(s) => users'[local[s][1].id] = users[local[s][1].id] ]_vars

\* C24: a verification enters the remote check first; it enters the fallback
\* only after the remote check has failed and only outside production; and
\* when the remote check succeeds the identity returned is the remote one,
\* also when the credentials are the configured fallback pair.
C24_RemoteFirst ==
    NonEmptyCall =>
        /\ vcall.tried \in { <<"remote">>, <<"remote", "fallback">> }
        /\ ( vcall.tried = <<"remote", "fallback">> ) =>
               ( vcall.answer.kind = "failure" /\ ~IS_PRODUCTION )
        /\ ( vcall.out.ok /\ vcall.out.via # "remote" ) =>
               ( vcall.answer.kind = "failure" /\ ~IS_PRODUCTION )
        /\ ( vcall.answer.kind = "profile" ) =>
               vcall.out = Ok(vcall.answer.profile, "remote")

\* the remote check succeeded on a call that the fallback would accept too
C24_Witness ==
    /\ NonEmptyCall
    /\ vcall.answer.kind = "profile"
    /\ vcall.dev.ok
    /\ vcall.out = Ok(vcall.answer.profile, "remote")

\* C25: a login one of whose lookups the store failed has ended in failure,
\* without having taken the found-by-email or the create branch.
C25_LookupFailurePropagates ==
    \A s \in Slots :
        ( arg[s].kind = "login" /\ arg[s].lookupFailed )
        => ( pc[s] = "done" /\ ~result[s].ok /\ arg[s].branch = "" )

\* C26: every call of verifyWordPressCredentials eventually returns or
\* fails, whether or not the provider answers.
C26_VerifyTerminates ==
    ( vcall.kind = "live" ) ~> ( vcall.kind = "live" /\ vcall.pc = "returned" )

\* the tokens the request of the last authenticate call presented
Presented ==
    ( IF vcall.authHeader # None /\ vcall.authHeader[1].scheme = "Bearer"
      THEN {vcall.authHeader[1].rest} ELSE {} )
    \cup ( IF vcall.cookie # None THEN {vcall.cookie[1]} ELSE {} )

\* a token that was signed with the service's key and has not expired
Verifies(t, now) ==
    /\ t.wellFormed
    /\ t.signature = Signature(t.claims, JWT_SECRET)
    /\ now < t.claims.exp

\* C27: authenticate attaches a user only if a presented token verifies, and
\* then the id, email and role of that token; when no presented token
\* verifies (none presented, invalid, expired) the request ends with the
\* unauthorized error, except on '/session' and '/messages/examples', where
\* it continues with no user attached.
C27_AuthenticateAttachesVerified ==
    vcall.kind = "auth" =>
        /\ vcall.out.user # None =>
               \E t \in Presented :
                   /\ Verifies(t, vcall.now)
                   /\ vcall.out.user[1] = [id |-> t.claims.id, email |-> t.claims.email,
                                           role |-> t.claims.role]
        /\ ( \A t \in Presented : ~Verifies(t, vcall.now) ) =>
               IF vcall.path \in {"/session", "/messages/examples"}
               THEN vcall.out = Continue(None)
               ELSE /\ vcall.out.next = "error"
                    /\ vcall.out.error = "UnauthorizedError"
                    /\ vcall.out.user = None

\* an expired token on '/session': the request continues with no user
C27_Witness ==
    /\ vcall.kind = "auth"
    /\ vcall.path = "/session"
    /\ \E t \in Presented : Verifies(t, 1) /\ ~Verifies(t, vcall.now)
    /\ vcall.out = Continue(None)

\* C28: with one request at a time, the user that a successful login returns
\* has the credits, the subscription and the role of the row stored for that
\* user at the moment the login completes.
C28_ReturnedUserIsStoredUser ==
    [][ \A s \in Slots :
          ( pc[s] = "reconciled" /\ pc'[s] = "done" /\ result'[s].ok ) =>
              LET user == result'[s].user[1]
                  row == users'[user.id]
              IN  /\ user.credits = row.credits
                  /\ user.subscription = row.subscription
                  /\ user.role = row.role ]_vars

\* the claims of a user
ClaimsOf(user) == [id |-> user.id, email |-> user.email, role |-> user.role]

\* what a login that has ended gave its caller
TokenOnlyWithSuccess ==
    \A s \in Slots :
        LoginDone(s) =>
            IF result[s].ok
            THEN result[s].token = Some(ClaimsOf(result[s].user[1]))
            ELSE result[s].token = None

\* C29: a token is issued only by the step that completes a login whose
\* credentials were verified, whose user was reconciled and is active and
\* whose membership update has been written, and it carries the id, email
\* and role of the reconciled user; a login that fails returns no token.
C29_TokenAfterAllSteps ==
    [][ /\ tokens' # tokens =>
             \E s \in Slots :
                 LET user == local[s][1]
                     level == getMembershipLevel(wpUser[s])
                 IN  /\ arg[s].kind = "login" /\ pc[s] = "reconciled"
                     /\ wpUser[s] # NoUser
                     /\ user.active
                     /\ users'[user.id].wordpress_membership_id = Some(level.id)
                     /\ users'[user.id].credits = mapMembershipToCredits(level)
                     /\ pc'[s] = "done" /\ result'[s].ok
                     /\ tokens' = tokens \cup {ClaimsOf(user)}
        /\ TokenOnlyWithSuccess' ]_vars

\* a login has succeeded and its token is among the issued ones
C29_Witness ==
    \E s \in Slots :
        /\ LoginOk(s)
        /\ result[s].token[1] \in tokens
        /\ result[s].token[1] = ClaimsOf(users[result[s].user[1].id])

\* a send-message request that one of the stated checks must stop: no
\* authenticated user, empty content, a conversation that does not exist or
\* belongs to another user, no session id for a new conversation
MustBeRejected(request) ==
    \/ request.user = None
    \/ request.body.content = ""
    \/ /\ request.body.conversationId # ""
       /\ \/ request.body.conversationId \notin DOMAIN Conversations
          \/ Conversations[request.body.conversationId].user_id # request.user[1].id
    \/ request.body.conversationId = "" /\ request.body.sessionId = ""

IsSendRequest(a) == a.kind \in {"send", "consume"} /\ "request" \in DOMAIN a

\* C30: with one request at a time, a send-message request that one of the
\* checks before the ledger step must stop is ended by the step on which it
\* arrives, with the table unchanged and the webhook not called; a request
\* that passes them asks the ledger for exactly one credit, and when its
\* webhook has been called the balance is one less than when it arrived.
C30_RejectedSendsCostNothing ==
    [][ \A s \in Slots :
          /\ ( pc[s] = "idle" /\ IsSendRequest(arg'[s]) /\ MustBeRejected(arg'[s].request) )
             => /\ pc'[s] = "done"
                /\ result'[s].kind = "rejected" /\ result'[s].webhook = "none"
                /\ users' = users
          /\ ( IsSendRequest(arg'[s]) /\ arg'[s].kind = "consume" )
             => /\ ~MustBeRejected(arg'[s].request)
                /\ arg'[s].amount = 1
                /\ ( pc'[s] = "done" /\ result'[s].webhook # "none" )
                   => users'[arg'[s].userId].credits = ledger'[arg'[s].userId].B - 1 ]_vars

\* a request for another user's conversation was rejected
C30_Witness ==
    \E s \in Slots :
        /\ pc[s] = "done" /\ arg[s].kind = "send"
        /\ result[s] = Rejected(403, "Not authorized to send messages to this conversation")
        /\ Len(users) >= 1

====
